---- MODULE Spec2Model ----
(***************************************************************************)
(* The 3D scene viewer of src/main.js: the camera auto-framing done in the *)
(* loader's success callback and the constrained navigation (OrbitControls *)
(* locks plus the SHIFT + drag dolly) done by the DOM event handlers and   *)
(* the animate loop.                                                       *)
(*                                                                         *)
(* Numbers.  Lengths are fixed point, in thousandths of a world unit       *)
(* (10 units = 10000).  Azimuth angles are in steps of 15 degrees          *)
(* (pi/4 = 3, pi = 12), normalised to -11..12 as Math.atan2 does.  A polar *)
(* angle phi is kept as cos(phi) in thousandths (pi/3 = 500, pi/2 = 0,     *)
(* 0 = 1000), so a larger value is a smaller angle.                        *)
(*                                                                         *)
(* The camera position is kept the way OrbitControls.update() reads it:    *)
(* as spherical coordinates [r, az, cp] of (camera.position - target).     *)
(* The camera orientation is kept as the direction [az, cp] of the unit    *)
(* vector camera.getWorldDirection() returns.                              *)
(***************************************************************************)
EXTENDS Integers, Sequences, FiniteSets, TLC

VARIABLES
    isShiftDragging,   \* main.js:46   let isShiftDragging
    previousY,         \* main.js:47   let previousY
    controlsEnabled,   \* controls.enabled (OrbitControls default true)
    cameraPosition,    \* camera.position, spherical about controls.target
    cameraDirection,   \* camera orientation: its world direction
    cameraNear,        \* camera.near
    cameraFar,         \* camera.far
    cameraAspect,      \* camera.aspect (x1000)
    rendererSize,      \* the size given to renderer.setSize / composer.setSize
    controlsTarget,    \* controls.target
    minDistance,       \* controls.minDistance
    maxDistance,       \* controls.maxDistance
    sphericalDelta,    \* OrbitControls' pending rotation (damping inertia)
    position0,         \* controls.position0 (saveState / reset baseline)
    target0,           \* controls.target0
    loadState,         \* "loading" | "loaded" | "failed": the loader.load call
    boxSize,           \* size of the loaded model's bounding box (after scale)
    progressHidden,    \* #progress-container has display: none
    buttonDown,        \* the primary mouse button is physically held
    wheelCount,        \* wheel events delivered so far (capped by MaxWheel)
    lastEvent,         \* the event whose handler ran last: [type, button, shiftKey, clientY]
    solverIn,          \* SpecFrame: the framing inputs [size, fov]
    solverOut          \* SpecFrame: <<the framing result>>, or <<>> before it

vars == <<isShiftDragging, previousY, controlsEnabled, cameraPosition,
          cameraDirection, cameraNear, cameraFar, cameraAspect, rendererSize,
          controlsTarget,
          minDistance, maxDistance, sphericalDelta, position0, target0,
          loadState, boxSize, progressHidden, buttonDown,
          wheelCount, lastEvent, solverIn, solverOut>>

----------------------------------------------------------------------------
(* Bounds of the model *)

\* the clientY values of the mouse events are 300 - 40*k for k in 0..MaxDrag
MaxDrag == 1
\* wheel events delivered in one behaviour
MaxWheel == 1
\* the dolly is not followed beyond this many thousandths from the target
MaxRadius == 70000
\* |sphericalDelta| never exceeds this (rotate input is refused beyond it)
MaxDelta == 12

(* Program constants *)

CameraFov == 75                \* main.js:27
InitialNear == 100             \* main.js:29   0.1
InitialFar == 10000000         \* main.js:30   10000
MinAzimuthAngle == -3          \* main.js:42   -Math.PI / 4
MaxAzimuthAngle == 3           \* main.js:43   Math.PI / 4
MinPolarCos == 500             \* main.js:40   cos(Math.PI / 3)
MaxPolarCos == 500             \* main.js:41   cos(Math.PI / 3)
DampingTenths == 1             \* main.js:36   dampingFactor 0.1
ZoomSpeedMilli == 500          \* main.js:66   zoomSpeed 0.5
Infinity == 2000000000         \* OrbitControls' default maxDistance

----------------------------------------------------------------------------
(* Arithmetic helpers *)

Max2(a, b) == IF a >= b THEN a ELSE b
Min2(a, b) == IF a <= b THEN a ELSE b
Abs(a) == IF a < 0 THEN -a ELSE a
Sgn(a) == IF a < 0 THEN -1 ELSE IF a > 0 THEN 1 ELSE 0

\* a / b rounded toward zero, as a float product truncated to the grid
TruncDiv(a, b) == Sgn(a) * (Abs(a) \div b)

RECURSIVE SqrtSearch(_, _, _)
SqrtSearch(n, lo, hi) ==
    IF lo >= hi THEN lo
    ELSE LET mid == (lo + hi + 1) \div 2
         IN  IF mid * mid <= n THEN SqrtSearch(n, mid, hi)
             ELSE SqrtSearch(n, lo, mid - 1)

\* floor(sqrt(n)) for 0 <= n < 46000^2
ISqrt(n) == SqrtSearch(n, 0, 46000)

Max3(a, b, c) == Max2(a, Max2(b, c))

----------------------------------------------------------------------------
(* Vectors and angles *)

\* azimuth normalised to -11..12, the range of Math.atan2 in 15 degree steps
NormAz(a) == IF a > 12 THEN a - 24 ELSE IF a <= -12 THEN a + 24 ELSE a

\* the direction opposite to direction d
Opp(d) == [az |-> NormAz(d.az + 12), cp |-> -d.cp]

\* the direction of a position that is not the target itself
DirOf(pos) == [az |-> pos.az, cp |-> pos.cp]

\* camera.position === controls.target: Spherical.setFromVector3 of the zero
\* vector gives radius 0, theta 0, phi 0
ZeroPos == [r |-> 0, az |-> 0, cp |-> 1000]

\* the direction of a fresh camera and of lookAt() from the target itself:
\* the camera looks down its local -z axis (theta = pi, phi = pi/2)
MinusZ == [az |-> 12, cp |-> 0]

\* Math.atan2(x, z) in 15 degree steps, for the vectors on the 45 degree grid
\* (the only ones the program converts: framing sets x = z)
Atan2Steps(x, z) ==
    CASE x = 0 /\ z >= 0 -> 0
      [] x = 0 /\ z < 0  -> 12
      [] z = 0 /\ x > 0  -> 6
      [] z = 0 /\ x < 0  -> -6
      [] x = z /\ x > 0  -> 3
      [] x = z /\ x < 0  -> -9
      [] x = -z /\ x > 0 -> 9
      [] x = -z /\ x < 0 -> -3

\* Spherical.setFromVector3(v) for v = <<x, y, z>>
ToSpherical(v) ==
    LET r == ISqrt(v[1] * v[1] + v[2] * v[2] + v[3] * v[3])
    IN  IF r = 0 THEN ZeroPos
        ELSE [r |-> r, az |-> Atan2Steps(v[1], v[3]), cp |-> (v[2] * 1000) \div r]

\* camera.lookAt(target) from position pos: the world direction afterwards
LookAt(pos) == IF pos.r = 0 THEN MinusZ ELSE Opp(DirOf(pos))

----------------------------------------------------------------------------
(* Framing: the loader's success callback, main.js:93-120 *)

\* Math.tan(fov / 2) in thousandths, fov in degrees
TanHalf(fov) ==
    CASE fov = 30  -> 268
      [] fov = 60  -> 577
      [] fov = 75  -> 767
      [] fov = 90  -> 1000
      [] fov = 120 -> 1732
      [] fov = 150 -> 3732

\* const maxDim = Math.max(size.x, size.y, size.z)
MaxDim(size) == Max3(size[1], size[2], size[3])

\* maxDim / (2 * Math.tan(fov / 2)): the distance at which maxDim fills the view
FitDistance(maxDim, fov) == (maxDim * 1000) \div (2 * TanHalf(fov))

\* let distance = maxDim / (2 * Math.tan(fov / 2)); distance *= 1.2
FrameDistance(maxDim, fov) == (FitDistance(maxDim, fov) * 12) \div 10

\* mutant: the lateral offset is not scaled by zoomMultiplier
FramePositionNoZoomMultiplier(maxDim, fov) ==
    LET distance == FrameDistance(maxDim, fov)
        lateral  == (distance * 7071) \div 10000
    IN  <<lateral, (distance * 4) \div 10, lateral>>

\* camera.position.set(distance * 0.18 * cos(pi/4), distance * 0.4,
\*                     distance * 0.18 * sin(pi/4))
FramePosition(maxDim, fov) ==
    LET distance == FrameDistance(maxDim, fov)
        lateral  == (((distance * 18) \div 100) * 7071) \div 10000
    IN  <<lateral, (distance * 4) \div 10, lateral>>

\* camera.near = maxDim / 100
FrameNear(maxDim) == maxDim \div 100
\* mutant: far is computed like near
FrameFarCopiesNear(maxDim) == maxDim \div 100
\* camera.far = maxDim * 100
FrameFar(maxDim) == maxDim * 100
\* controls.minDistance = maxDim * 0.1
FrameMinDistance(maxDim) == maxDim \div 10
\* controls.maxDistance = maxDim * 5
FrameMaxDistance(maxDim) == maxDim * 5

\* everything the callback derives from the bounding box and the field of view
Frame(size, fov) ==
    LET maxDim == MaxDim(size)
    IN  [maxDim      |-> maxDim,
         position    |-> FramePosition(maxDim, fov),
         near        |-> FrameNear(maxDim),
         far         |-> FrameFar(maxDim),
         minDistance |-> FrameMinDistance(maxDim),
         maxDistance |-> FrameMaxDistance(maxDim)]

----------------------------------------------------------------------------
(* OrbitControls, as configured in main.js:34-43 *)

\* the azimuth restriction of update(): Math.max(min, Math.min(max, theta))
ClampAzimuth(theta) == Max2(MinAzimuthAngle, Min2(MaxAzimuthAngle, theta))

\* mutant: update() applies no polar restriction
ClampPolarOff(cp) == cp

\* the polar restriction of update(): Math.max(minPolarAngle,
\* Math.min(maxPolarAngle, phi)), on cosines (cos decreases with the angle)
ClampPolar(cp) == Min2(MinPolarCos, Max2(MaxPolarCos, cp))

\* the distance restriction of update()
ClampRadius(r, minD, maxD) == Max2(minD, Min2(maxD, r))

\* the rotation update() applies from the pending delta (enableDamping):
\* spherical.theta += sphericalDelta.theta * dampingFactor
DampedStep(sd) == TruncDiv(sd * DampingTenths, 10)

\* what update() leaves pending: sphericalDelta.theta *= (1 - dampingFactor).
\* The pending rotation is kept on the model's grid: a remainder too small to
\* turn the camera by one grid step in any later update() is dropped.
Damp(sd) ==
    LET rest == TruncDiv(sd * (10 - DampingTenths), 10)
    IN  IF DampedStep(rest) = 0 THEN 0 ELSE rest

\* controls.update(): the new camera position.  It runs whether or not
\* controls.enabled is set; scale is num/den (1/1 unless a wheel event zooms).
ControlsUpdate(pos, sd, num, den, minD, maxD) ==
    LET theta  == ClampAzimuth(pos.az + DampedStep(sd))
        cp     == ClampPolar(pos.cp)
        radius == ClampRadius((pos.r * num) \div den, minD, maxD)
    IN  IF radius = 0 THEN ZeroPos
        ELSE [r |-> radius, az |-> theta, cp |-> cp]

----------------------------------------------------------------------------
(* The SHIFT + drag handlers, main.js:45-71 *)

\* mutant: the handler does not test e.shiftKey
MouseDownHandlerIgnoresShift(button, shiftKey, clientY, dragging, prevY, enabled) ==
    IF button = 0
    THEN [isShiftDragging |-> TRUE, previousY |-> clientY, enabled |-> FALSE]
    ELSE [isShiftDragging |-> dragging, previousY |-> prevY, enabled |-> enabled]

\* mousedown, main.js:48-55: the new <<isShiftDragging, previousY, enabled>>
MouseDownHandler(button, shiftKey, clientY, dragging, prevY, enabled) ==
    IF button = 0 /\ shiftKey
    THEN [isShiftDragging |-> TRUE, previousY |-> clientY, enabled |-> FALSE]
    ELSE [isShiftDragging |-> dragging, previousY |-> prevY, enabled |-> enabled]

\* mutant: the handler ends the gesture but forgets controls.enabled = true
MouseUpHandlerLeavesDisabled(dragging, enabled) ==
    [isShiftDragging |-> FALSE, enabled |-> enabled]

\* mouseup, main.js:56-61: the new <<isShiftDragging, enabled>>
MouseUpHandler(dragging, enabled) ==
    IF dragging
    THEN [isShiftDragging |-> FALSE, enabled |-> TRUE]
    ELSE [isShiftDragging |-> dragging, enabled |-> enabled]

\* const deltaY = e.clientY - previousY
DeltaY(clientY, prevY) == clientY - prevY

\* mutant: the sign of the dolly is lost
DollyAmountInverted(deltaY) == deltaY * ZoomSpeedMilli

\* the signed length -deltaY * zoomSpeed, in thousandths
DollyAmount(deltaY) == -deltaY * ZoomSpeedMilli

\* camera.position.addScaledVector(direction, amount): the camera moves by
\* amount along its world direction dir.  The direction is always on the line
\* through the target (lookAt put it there), so the move stays on that line.
AddScaledVector(pos, dir, amount) ==
    IF amount = 0 THEN pos
    ELSE IF pos.r = 0
    THEN (IF amount > 0
          THEN [r |-> amount, az |-> dir.az, cp |-> dir.cp]
          ELSE [r |-> -amount, az |-> Opp(dir).az, cp |-> Opp(dir).cp])
    ELSE LET s == IF dir = DirOf(pos) THEN pos.r + amount ELSE pos.r - amount
             \* the side of the target the camera was on, and the other one
             same  == DirOf(pos)
             other == Opp(DirOf(pos))
         IN  IF s = 0 THEN ZeroPos
             ELSE IF s > 0 THEN [r |-> s, az |-> same.az, cp |-> same.cp]
             ELSE [r |-> -s, az |-> other.az, cp |-> other.cp]

----------------------------------------------------------------------------
(* Inputs *)

\* e.clientY of the mouse events
ClientYs == {300 - 40 * k : k \in 0 .. MaxDrag}

\* e.button: 0 is the primary button, 2 the secondary one
Buttons == {0, 2}

\* bounding boxes of the loaded model, in thousandths: an empty scene, a
\* cube of 10 units
Sizes == {<<0, 0, 0>>, <<10000, 10000, 10000>>}

\* window.innerWidth, window.innerHeight
Viewports == {<<1280, 720>>, <<800, 800>>}

\* the rotation a drag adds to sphericalDelta, in tenths of a 15 degree step
RotateInputs == {-12, 12}

Origin == <<0, 0, 0>>

\* an event that carries no button
Event(type) == [type |-> type, button |-> -1, shiftKey |-> FALSE, clientY |-> -1]

\* a mouse event
MouseEvent(type, button, shiftKey, clientY) ==
    [type |-> type, button |-> button, shiftKey |-> shiftKey, clientY |-> clientY]

----------------------------------------------------------------------------
(* The program *)

Init ==
    /\ isShiftDragging = FALSE
    /\ previousY = 0
    /\ controlsEnabled = TRUE
    /\ cameraPosition = ZeroPos
    /\ cameraDirection = MinusZ
    /\ cameraNear = InitialNear
    /\ cameraFar = InitialFar
    /\ cameraAspect = (1280 * 1000) \div 720
    /\ rendererSize = <<1280, 720>>
    /\ controlsTarget = Origin
    /\ minDistance = 0
    /\ maxDistance = Infinity
    /\ sphericalDelta = 0
    /\ position0 = ZeroPos
    /\ target0 = Origin
    /\ loadState = "loading"
    /\ boxSize = Origin
    /\ progressHidden = FALSE
    /\ buttonDown = FALSE
    /\ wheelCount = 0
    /\ lastEvent = Event("none")
    /\ solverIn = [size |-> Origin, fov |-> CameraFov]
    /\ solverOut = <<>>

cameraVars == <<cameraPosition, cameraDirection, cameraNear, cameraFar,
                cameraAspect, rendererSize>>
limitVars == <<minDistance, maxDistance>>
baselineVars == <<position0, target0>>
dragVars == <<isShiftDragging, previousY, controlsEnabled>>
loadVars == <<loadState, boxSize, progressHidden>>
solverVars == <<solverIn, solverOut>>

\* mousedown on renderer.domElement, main.js:48-55
MouseDown(button, shiftKey, clientY) ==
    /\ lastEvent' = MouseEvent("mousedown", button, shiftKey, clientY)
    /\ button = 0 => ~buttonDown
    /\ buttonDown' = (IF button = 0 THEN TRUE ELSE buttonDown)
    /\ LET d == MouseDownHandler(button, shiftKey, clientY,
                                 isShiftDragging, previousY, controlsEnabled)
       IN  /\ isShiftDragging' = d.isShiftDragging
           /\ previousY' = d.previousY
           /\ controlsEnabled' = d.enabled
    /\ UNCHANGED <<cameraVars, controlsTarget, limitVars, sphericalDelta,
                   baselineVars, loadVars, wheelCount, solverVars>>

\* mouseup on renderer.domElement, main.js:56-61 (any button)
MouseUp(button) ==
    /\ lastEvent' = MouseEvent("mouseup", button, FALSE, -1)
    /\ button = 0 => buttonDown
    /\ buttonDown' = (IF button = 0 THEN FALSE ELSE buttonDown)
    /\ LET d == MouseUpHandler(isShiftDragging, controlsEnabled)
       IN  /\ isShiftDragging' = d.isShiftDragging
           /\ controlsEnabled' = d.enabled
    /\ UNCHANGED <<previousY, cameraVars, controlsTarget, limitVars,
                   sphericalDelta, baselineVars, loadVars,
                   wheelCount, solverVars>>

\* The primary button is released where no mouseup reaches renderer.domElement
\* (the pointer has left the canvas or the page has lost the focus): the
\* listener of main.js:56 is on the canvas only, so no handler runs.
ReleaseOutside ==
    /\ lastEvent' = Event("release-outside")
    /\ buttonDown
    /\ buttonDown' = FALSE
    /\ UNCHANGED <<dragVars, cameraVars, controlsTarget, limitVars,
                   sphericalDelta, baselineVars, loadVars,
                   wheelCount, solverVars>>

\* mutant: the mousemove handler does not test isShiftDragging
MouseMoveUnguarded(clientY) ==
    /\ lastEvent' = MouseEvent("mousemove", -1, FALSE, clientY)
    /\ LET moved == AddScaledVector(cameraPosition, cameraDirection,
                         DollyAmount(DeltaY(clientY, previousY)))
       IN  /\ moved.r <= MaxRadius
           /\ previousY' = clientY
           /\ cameraPosition' = moved
    /\ UNCHANGED <<isShiftDragging, controlsEnabled, cameraDirection,
                   cameraNear, cameraFar, cameraAspect, rendererSize,
                   controlsTarget, limitVars, sphericalDelta, baselineVars,
                   loadVars, buttonDown, wheelCount, solverVars>>

\* mousemove on renderer.domElement, main.js:62-71
MouseMove(clientY) ==
    /\ lastEvent' = MouseEvent("mousemove", -1, FALSE, clientY)
    /\ IF isShiftDragging
       THEN LET moved == AddScaledVector(cameraPosition, cameraDirection,
                             DollyAmount(DeltaY(clientY, previousY)))
            IN  /\ moved.r <= MaxRadius
                /\ previousY' = clientY
                /\ cameraPosition' = moved
       ELSE UNCHANGED <<previousY, cameraPosition>>
    /\ UNCHANGED <<isShiftDragging, controlsEnabled, cameraDirection,
                   cameraNear, cameraFar, cameraAspect, rendererSize,
                   controlsTarget, limitVars, sphericalDelta, baselineVars,
                   loadVars, buttonDown, wheelCount, solverVars>>

\* A rotate drag reaches OrbitControls: its handler returns at once when
\* controls.enabled is false, and otherwise adds the angle to sphericalDelta
\* and calls update().
RotateInput(angle) ==
    /\ lastEvent' = Event("rotate")
    /\ Abs(sphericalDelta + angle) <= MaxDelta
    /\ IF controlsEnabled
       THEN LET sd  == sphericalDelta + angle
                pos == ControlsUpdate(cameraPosition, sd, 1, 1,
                                      minDistance, maxDistance)
            IN  /\ cameraPosition' = pos
                /\ cameraDirection' = LookAt(pos)
                /\ sphericalDelta' = Damp(sd)
       ELSE UNCHANGED <<cameraPosition, cameraDirection, sphericalDelta>>
    /\ UNCHANGED <<dragVars, cameraNear, cameraFar, cameraAspect, rendererSize,
                   controlsTarget, limitVars, baselineVars, loadVars, buttonDown,
                   wheelCount, solverVars>>

\* A wheel event reaches OrbitControls (enableZoom, main.js:37): ignored when
\* controls.enabled is false, otherwise scale becomes 0.95 (in) or 1/0.95
\* (out) and update() runs.
WheelZoom(zoomIn) ==
    /\ lastEvent' = Event("wheel")
    /\ wheelCount < MaxWheel
    /\ wheelCount' = wheelCount + 1
    /\ IF controlsEnabled
       THEN LET pos == IF zoomIn
                       THEN ControlsUpdate(cameraPosition, sphericalDelta,
                                95, 100, minDistance, maxDistance)
                       ELSE ControlsUpdate(cameraPosition, sphericalDelta,
                                100, 95, minDistance, maxDistance)
            IN  /\ cameraPosition' = pos
                /\ cameraDirection' = LookAt(pos)
                /\ sphericalDelta' = Damp(sphericalDelta)
       ELSE UNCHANGED <<cameraPosition, cameraDirection, sphericalDelta>>
    /\ UNCHANGED <<dragVars, cameraNear, cameraFar, cameraAspect, rendererSize,
                   controlsTarget, limitVars, baselineVars, loadVars, buttonDown,
                   solverVars>>

\* animate(), main.js:195-204: controls.update() on every frame
FrameTick ==
    /\ lastEvent' = Event("frame")
    /\ LET pos == ControlsUpdate(cameraPosition, sphericalDelta, 1, 1,
                                 minDistance, maxDistance)
       IN  /\ cameraPosition' = pos
           /\ cameraDirection' = LookAt(pos)
    /\ sphericalDelta' = Damp(sphericalDelta)
    /\ UNCHANGED <<dragVars, cameraNear, cameraFar, cameraAspect, rendererSize,
                   controlsTarget, limitVars, baselineVars, loadVars, buttonDown,
                   wheelCount, solverVars>>

\* click on #resetView, main.js:190-191: controls.reset() copies target0 and
\* position0 back and calls update()
ResetView ==
    /\ lastEvent' = Event("reset")
    /\ controlsTarget' = target0
    /\ LET pos == ControlsUpdate(position0, sphericalDelta, 1, 1,
                                 minDistance, maxDistance)
       IN  /\ cameraPosition' = pos
           /\ cameraDirection' = LookAt(pos)
    /\ sphericalDelta' = Damp(sphericalDelta)
    /\ UNCHANGED <<dragVars, cameraNear, cameraFar, cameraAspect, rendererSize,
                   limitVars, baselineVars, loadVars, buttonDown, wheelCount,
                   solverVars>>

\* mutant: the resize handler puts the camera back on the baseline as well
ResizeResetsCamera(viewport) ==
    /\ lastEvent' = Event("resize")
    /\ cameraAspect' = (viewport[1] * 1000) \div viewport[2]
    /\ rendererSize' = viewport
    /\ cameraPosition' = position0
    /\ UNCHANGED <<dragVars, cameraDirection, cameraNear,
                   cameraFar, controlsTarget, limitVars, sphericalDelta,
                   baselineVars, loadVars, buttonDown, wheelCount, solverVars>>

\* resize, main.js:182-187
Resize(viewport) ==
    /\ lastEvent' = Event("resize")
    /\ cameraAspect' = (viewport[1] * 1000) \div viewport[2]
    /\ rendererSize' = viewport
    /\ UNCHANGED <<dragVars, cameraPosition, cameraDirection, cameraNear,
                   cameraFar, controlsTarget, limitVars, sphericalDelta,
                   baselineVars, loadVars, buttonDown, wheelCount, solverVars>>

\* the loader's success callback, main.js:88-126: frame the model, update the
\* controls, save the baseline, hide the loading indicator
LoadSuccess(size) ==
    /\ lastEvent' = Event("load-success")
    /\ loadState = "loading"
    /\ loadState' = "loaded"
    /\ boxSize' = size
    /\ LET f     == Frame(size, CameraFov)
           \* camera.position.set(...); controls.target.set(0, 0, 0)
           set   == ToSpherical(f.position)
           \* controls.update()
           pos   == ControlsUpdate(set, sphericalDelta, 1, 1,
                                   f.minDistance, f.maxDistance)
       IN  /\ cameraNear' = f.near
           /\ cameraFar' = f.far
           /\ controlsTarget' = Origin
           /\ minDistance' = f.minDistance
           /\ maxDistance' = f.maxDistance
           /\ cameraPosition' = pos
           /\ cameraDirection' = LookAt(pos)
           \* controls.saveState()
           /\ position0' = pos
           /\ target0' = Origin
    /\ sphericalDelta' = Damp(sphericalDelta)
    /\ progressHidden' = TRUE
    /\ UNCHANGED <<dragVars, cameraAspect, rendererSize, buttonDown,
                   wheelCount, solverVars>>

\* mutant: the error callback hides the loading indicator as well
LoadFailureHidesIndicator ==
    /\ lastEvent' = Event("load-failure")
    /\ loadState = "loading"
    /\ loadState' = "failed"
    /\ progressHidden' = TRUE
    /\ UNCHANGED <<dragVars, cameraVars, controlsTarget, limitVars,
                   sphericalDelta, baselineVars, boxSize, buttonDown,
                   wheelCount, solverVars>>

\* the loader's error callback, main.js:133-135: console.error only
LoadFailure ==
    /\ lastEvent' = Event("load-failure")
    /\ loadState = "loading"
    /\ loadState' = "failed"
    /\ UNCHANGED <<dragVars, cameraVars, controlsTarget, limitVars,
                   sphericalDelta, baselineVars, boxSize, progressHidden,
                   buttonDown, wheelCount, solverVars>>

Next ==
    \/ \E b \in Buttons, k \in BOOLEAN, y \in ClientYs : MouseDown(b, k, y)
    \/ \E b \in Buttons : MouseUp(b)
    \/ ReleaseOutside
    \/ \E y \in ClientYs : MouseMove(y)
    \/ \E a \in RotateInputs : RotateInput(a)
    \/ FrameTick
    \/ ResetView
    \/ \E v \in Viewports : Resize(v)
    \/ \E s \in Sizes : LoadSuccess(s)
    \/ LoadFailure

\* every event of the viewer but the wheel
Spec == Init /\ [][Next]_vars

\* The orbit side of the viewer with the wheel zoom of OrbitControls as well:
\* the primary button's gesture, the orbit inputs, the frame loop, the reset
\* and the load.  It is kept apart because every wheel notch multiplies the
\* radii the camera can reach.
NextZoom ==
    \/ \E k \in BOOLEAN, y \in ClientYs : MouseDown(0, k, y)
    \/ MouseUp(0)
    \/ \E y \in ClientYs : MouseMove(y)
    \/ \E a \in RotateInputs : RotateInput(a)
    \/ \E z \in BOOLEAN : WheelZoom(z)
    \/ FrameTick
    \/ ResetView
    \/ \E s \in Sizes : LoadSuccess(s)
    \/ LoadFailure

SpecZoom == Init /\ [][NextZoom]_vars

\* Orbit mode on its own: the inputs OrbitControls handles, the frame loop,
\* the reset and the load, with the SHIFT gesture entered and left (so that
\* OrbitControls is switched off and on) but the pointer not moved during it,
\* so the camera is only ever placed by the framing and by update().
NextOrbit ==
    \/ \E k \in BOOLEAN, y \in ClientYs : MouseDown(0, k, y)
    \/ MouseUp(0)
    \/ \E a \in RotateInputs : RotateInput(a)
    \/ \E z \in BOOLEAN : WheelZoom(z)
    \/ FrameTick
    \/ ResetView
    \/ \E s \in Sizes : LoadSuccess(s)
    \/ LoadFailure

SpecOrbit == Init /\ [][NextOrbit]_vars

----------------------------------------------------------------------------
(* The framing computation on its own, over bounding boxes and fields of   *)
(* view the viewer itself never meets (its camera has fov 75)              *)

\* side lengths of the bounding boxes, in thousandths
FrameDims == {0, 1000, 4000, 10000, 20000}

\* fields of view, in degrees
FrameFovs == {30, 60, 75, 90, 120, 150}

\* what the success callback computes from inp = [size, fov]: the derived
\* values, the position it assigns, and the position controls.update() leaves
Solve(inp) ==
    LET f   == Frame(inp.size, inp.fov)
        set == ToSpherical(f.position)
    IN  [maxDim      |-> f.maxDim,
         fit         |-> FitDistance(f.maxDim, inp.fov),
         position    |-> f.position,
         set         |-> set,
         updated     |-> ControlsUpdate(set, 0, 1, 1, f.minDistance, f.maxDistance),
         near        |-> f.near,
         far         |-> f.far,
         minDistance |-> f.minDistance,
         maxDistance |-> f.maxDistance]

InitFrame ==
    /\ isShiftDragging = FALSE
    /\ previousY = 0
    /\ controlsEnabled = TRUE
    /\ cameraPosition = ZeroPos
    /\ cameraDirection = MinusZ
    /\ cameraNear = InitialNear
    /\ cameraFar = InitialFar
    /\ cameraAspect = (1280 * 1000) \div 720
    /\ rendererSize = <<1280, 720>>
    /\ controlsTarget = Origin
    /\ minDistance = 0
    /\ maxDistance = Infinity
    /\ sphericalDelta = 0
    /\ position0 = ZeroPos
    /\ target0 = Origin
    /\ loadState = "loading"
    /\ boxSize = Origin
    /\ progressHidden = FALSE
    /\ buttonDown = FALSE
    /\ wheelCount = 0
    /\ lastEvent = Event("none")
    /\ solverIn \in [size : FrameDims \X FrameDims \X FrameDims, fov : FrameFovs]
    /\ solverOut = <<>>

SolveFrame ==
    /\ solverOut = <<>>
    /\ solverOut' = <<Solve(solverIn)>>
    /\ UNCHANGED <<dragVars, cameraVars, controlsTarget, limitVars,
                   sphericalDelta, baselineVars, loadVars, buttonDown,
                   wheelCount, lastEvent, solverIn>>

NextFrame == SolveFrame

SpecFrame == InitFrame /\ [][NextFrame]_vars

----------------------------------------------------------------------------
(* Properties *)

\* the signed coordinate of position pos on the axis through the target with
\* direction dir (positive on the side dir points to)
Along(pos, dir) ==
    IF pos.r = 0 THEN 0
    ELSE IF DirOf(pos) = dir THEN pos.r ELSE -pos.r

\* the camera is on the line through the target along its own direction
OnAxis(pos, dir) == pos.r = 0 \/ DirOf(pos) = dir \/ DirOf(pos) = Opp(dir)

\* the spherical coordinates orbiting and zooming act on
Spherical(pos) == <<pos.az, pos.cp, pos.r>>

Cube10 == <<10000, 10000, 10000>>

\* C1: in every reachable state exactly one input mode is active: the orbit
\* controller is enabled if and only if no SHIFT drag is in progress.
C1_ExactlyOneMode == controlsEnabled = ~isShiftDragging

\* C1 witness: a SHIFT drag in progress on the framed model, orbit disabled,
\* with frames still being drawn
C1_DollyModeReached ==
    /\ isShiftDragging
    /\ ~controlsEnabled
    /\ loadState = "loaded"
    /\ lastEvent.type = "frame"

\* C2: the mode goes from Orbit to Dolly only on a mousedown with button 0
\* and shift held, and from Dolly to Orbit only on a mouseup; a shift+mousedown
\* received in Dolly mode leaves the single Dolly mode in place.
C2_ModeTransitions ==
    [][ /\ (~isShiftDragging /\ isShiftDragging') =>
              /\ lastEvent'.type = "mousedown"
              /\ lastEvent'.button = 0
              /\ lastEvent'.shiftKey
        /\ (isShiftDragging /\ ~isShiftDragging') => lastEvent'.type = "mouseup"
        /\ ( /\ isShiftDragging
             /\ lastEvent'.type = "mousedown"
             /\ lastEvent'.button = 0
             /\ lastEvent'.shiftKey ) =>
              (isShiftDragging' /\ ~controlsEnabled')
      ]_vars

\* C2 witness: a gesture was entered (previousY was recorded) and a mouseup
\* brought the controller back to Orbit mode
C2_GestureEnteredAndLeft ==
    /\ lastEvent.type = "mouseup"
    /\ ~isShiftDragging
    /\ controlsEnabled
    /\ previousY \in ClientYs

\* C3: on the framed model, while a SHIFT drag is active no orbit-rotate
\* input, wheel input or
\* per-frame controller update changes the camera's azimuth, polar angle or
\* distance; and the first orbit input after the mouseup is applied (a rotate
\* input changes the camera or the pending rotation, a wheel input changes the
\* distance unless a distance limit stops it).
C3_NoOrbitChangeWhileDragging ==
    [][ /\ ( /\ loadState = "loaded"
             /\ MaxDim(boxSize) > 0
             /\ isShiftDragging
             /\ lastEvent'.type \in {"rotate", "wheel", "frame"} ) =>
              Spherical(cameraPosition') = Spherical(cameraPosition)
        /\ (lastEvent.type = "mouseup" /\ lastEvent'.type = "rotate") =>
              <<cameraPosition', sphericalDelta'>> # <<cameraPosition, sphericalDelta>>
        /\ (lastEvent.type = "mouseup" /\ lastEvent'.type = "wheel") =>
              \/ cameraPosition'.r # cameraPosition.r
              \/ cameraPosition'.r \in {minDistance, maxDistance}
      ]_vars

\* C4: every release of the primary button during a gesture ends the gesture,
\* so no mousemove that comes while the button is up translates the camera.
C4_ReleaseEndsGesture ==
    [][ /\ (isShiftDragging /\ buttonDown /\ ~buttonDown') =>
              (~isShiftDragging' /\ controlsEnabled')
        /\ (~buttonDown /\ lastEvent'.type = "mousemove") =>
              cameraPosition' = cameraPosition
      ]_vars

\* C5: a mousemove during a gesture sets previousY to the event's clientY and
\* moves the camera along its direction by exactly -(clientY - previousY) * 0.5,
\* leaving the direction alone: from 300 to 260 it moves 20 units forward, from
\* 260 to 300 it moves 20 units backward.
C5_DollyStep ==
    [][ (isShiftDragging /\ lastEvent'.type = "mousemove") =>
          LET currentY == lastEvent'.clientY
              moved    == Along(cameraPosition', cameraDirection)
                          - Along(cameraPosition, cameraDirection)
          IN  /\ previousY' = currentY
              /\ cameraDirection' = cameraDirection
              /\ OnAxis(cameraPosition', cameraDirection)
              /\ 2 * moved = -(currentY - previousY) * 1000
              /\ (previousY = 300 /\ currentY = 260) => moved = 20000
              /\ (previousY = 260 /\ currentY = 300) => moved = -20000
      ]_vars

\* C5 witness: on the framed 10-unit cube a drag has just moved the camera from
\* its baseline 20 units forward, to the far side of the target
C5_DraggedForward ==
    /\ isShiftDragging
    /\ lastEvent.type = "mousemove"
    /\ lastEvent.clientY = 260
    /\ previousY = 260
    /\ boxSize = Cube10
    /\ Along(cameraPosition, cameraDirection) = 20000 - position0.r

\* C6: a reset restores the camera position, the target and the zoom limits
\* to exactly the values saved right after the framing, whatever happened in
\* between.
C6_ResetRestoresBaseline ==
    [][ (loadState = "loaded" /\ lastEvent'.type = "reset") =>
          /\ cameraPosition' = position0
          /\ controlsTarget' = target0
          /\ minDistance' = FrameMinDistance(MaxDim(boxSize))
          /\ maxDistance' = FrameMaxDistance(MaxDim(boxSize))
      ]_vars

\* C7: a loaded object with maxDim = 0 is treated like a load failure: nothing
\* is framed and the loading indicator stays visible.
C7_DegenerateTreatedAsFailure ==
    [][ (lastEvent'.type = "load-success" /\ MaxDim(boxSize') = 0) =>
          /\ UNCHANGED <<cameraPosition, cameraNear, cameraFar, minDistance,
                         maxDistance, position0, target0>>
          /\ ~progressHidden'
      ]_vars

\* C8: a load failure changes neither the camera, the limits, the baseline nor
\* the loading indicator, no load is started after it, and the indicator is
\* hidden only in states where a load succeeded and was framed.
C8_FailureOnlyReported ==
    /\ [](progressHidden =>
            /\ loadState = "loaded"
            /\ minDistance = FrameMinDistance(MaxDim(boxSize))
            /\ maxDistance = FrameMaxDistance(MaxDim(boxSize))
            /\ cameraNear = FrameNear(MaxDim(boxSize))
            /\ cameraFar = FrameFar(MaxDim(boxSize)))
    /\ [][ /\ lastEvent'.type = "load-failure" =>
                /\ UNCHANGED <<cameraVars, controlsTarget, limitVars,
                               baselineVars, progressHidden>>
                /\ ~progressHidden'
                /\ loadState' = "failed"
           /\ loadState = "failed" =>
                /\ loadState' = "failed"
                /\ UNCHANGED <<limitVars, baselineVars, cameraNear, cameraFar,
                               progressHidden>>
         ]_vars

\* C8 witness: the load has failed, the viewer went on (a gesture was made and
\* frames drawn) and the indicator is still shown
C8_FailedAndStillIndicated ==
    /\ loadState = "failed"
    /\ ~progressHidden
    /\ previousY \in ClientYs
    /\ lastEvent.type = "frame"
    /\ position0 = ZeroPos
    /\ maxDistance = Infinity

\* C9 as stated: for maxDim > 0 the framed camera is within [0.9, 1.3] times
\* the fit distance maxDim / (2 * tan(fov/2)) from the target.
C9_WithinFitBand ==
    (solverOut # <<>> /\ solverOut[1].maxDim > 0) =>
        /\ 90 * solverOut[1].fit <= 100 * solverOut[1].set.r
        /\ 100 * solverOut[1].set.r <= 130 * solverOut[1].fit

\* C9 amended: for maxDim > 0 the position the framing assigns is
\* 1.2 * sqrt(0.18^2 + 0.4^2) = 0.526 times the fit distance from the target
\* (within [0.5, 0.55] times it), and at the viewer's field of view of 75
\* degrees the controller update that follows keeps that distance.
C9_WithinZoomedBand ==
    (solverOut # <<>> /\ solverOut[1].maxDim > 0) =>
        /\ 50 * solverOut[1].fit <= 100 * solverOut[1].set.r
        /\ 100 * solverOut[1].set.r <= 55 * solverOut[1].fit
        /\ solverIn.fov = CameraFov => solverOut[1].updated.r = solverOut[1].set.r

\* C9 witness: the 10-unit cube framed at 75 degrees: fit distance 6.518,
\* camera at 3.429 from the target
C9_CubeFramed ==
    /\ solverOut # <<>>
    /\ solverIn = [size |-> Cube10, fov |-> 75]
    /\ solverOut[1].fit = 6518
    /\ solverOut[1].set.r = 3429
    /\ solverOut[1].updated.r = 3429

\* C10: from a successful framing with maxDim > 0 onward, near = maxDim/100,
\* far = maxDim*100, minDistance = maxDim*0.1 and maxDistance = maxDim*5, so
\* near < far and 0 < minDistance < maxDistance (for maxDim = 10: 0.1, 1000,
\* 1, 50); no later event changes the four values.
C10_LimitsFromMaxDim ==
    /\ [](LET maxDim == MaxDim(boxSize)
          IN  (loadState = "loaded" /\ maxDim > 0) =>
                /\ 100 * cameraNear = maxDim
                /\ cameraFar = 100 * maxDim
                /\ 10 * minDistance = maxDim
                /\ maxDistance = 5 * maxDim
                /\ cameraNear < cameraFar
                /\ 0 < minDistance
                /\ minDistance < maxDistance
                /\ maxDim = 10000 =>
                     /\ cameraNear = 100
                     /\ cameraFar = 1000000
                     /\ minDistance = 1000
                     /\ maxDistance = 50000)
    /\ [][loadState = "loaded" =>
            UNCHANGED <<cameraNear, cameraFar, minDistance, maxDistance>>]_vars

\* C10 witness: the 10-unit cube was framed, then the camera was dollied away
\* and reset
C10_CubeFramedAndUsed ==
    /\ loadState = "loaded"
    /\ boxSize = Cube10
    /\ lastEvent.type = "reset"
    /\ previousY \in ClientYs
    /\ cameraNear = 100
    /\ maxDistance = 50000

\* an event whose handler runs controls.update(): the frame loop, the reset, the
\* framing, and the rotate and wheel inputs OrbitControls accepts (it ignores
\* them while controls.enabled is false)
UpdateRan(enabledBefore, event) ==
    \/ event.type \in {"frame", "reset", "load-success"}
    \/ event.type \in {"rotate", "wheel"} /\ enabledBefore

\* C11: after every controller update (rotate input, wheel input, frame tick,
\* reset, the update run at framing time) a camera that is not on the target
\* itself has its azimuth within [-pi/4, pi/4] and its polar angle at pi/3 and
\* looks at the target; on a framed model with maxDim > 0 the camera is never
\* on the target after an update, so its angles are always defined.
C11_AnglesLocked ==
    [][ UpdateRan(controlsEnabled, lastEvent') =>
          /\ cameraPosition'.r > 0 =>
                /\ cameraPosition'.az >= MinAzimuthAngle
                /\ cameraPosition'.az <= MaxAzimuthAngle
                /\ cameraPosition'.cp = MinPolarCos
                /\ cameraPosition'.cp = MaxPolarCos
          /\ cameraDirection' = LookAt(cameraPosition')
          /\ (loadState' = "loaded" /\ MaxDim(boxSize') > 0) =>
                cameraPosition'.r >= minDistance' /\ minDistance' > 0
      ]_vars

\* C11 witness: on the framed 10-unit cube the camera was rotated from the
\* framing azimuth pi/4 to the opposite limit -pi/4 and a wheel notch has just
\* changed its distance
C11_ZoomedAtAzimuthLimit ==
    /\ loadState = "loaded"
    /\ boxSize = Cube10
    /\ lastEvent.type = "wheel"
    /\ controlsEnabled
    /\ cameraPosition.az = MinAzimuthAngle
    /\ cameraPosition.cp = MinPolarCos
    /\ cameraPosition.r # position0.r

\* the camera has gone through the pivot: it is on the side of the target its
\* own view direction points to, looking away from the target
PastPivot(pos, dir) == pos.r > 0 /\ DirOf(pos) = dir

\* C12: on the framed model, during a SHIFT drag with the button held a
\* mousemove places the camera
\* without regard to [minDistance, maxDistance], and the frame ticks between
\* the mousemoves leave it there: a tick changes neither the camera's distance
\* from the pivot nor the side of the pivot it is on.
C12_DollyNotClamped ==
    [][ ( /\ loadState = "loaded"
          /\ MaxDim(boxSize) > 0
          /\ isShiftDragging
          /\ buttonDown
          /\ isShiftDragging' ) =>
          /\ lastEvent'.type = "mousemove" =>
                2 * ( Along(cameraPosition', cameraDirection)
                      - Along(cameraPosition, cameraDirection) )
                  = -(lastEvent'.clientY - previousY) * 1000
          /\ lastEvent'.type = "frame" =>
                /\ cameraPosition'.r = cameraPosition.r
                /\ PastPivot(cameraPosition', cameraDirection')
                     = PastPivot(cameraPosition, cameraDirection)
      ]_vars

\* C13: a resize sets the camera's aspect ratio to width / height and the
\* renderer and composer size to the window's, and changes nothing else: not
\* the camera position or orientation, the target, near/far, the navigation
\* limits, the reset baseline, the pending rotation or the drag state, in
\* Orbit mode and during a SHIFT drag alike.
C13_ResizeOnlyAspect ==
    [][ lastEvent'.type = "resize" =>
          /\ rendererSize' \in Viewports
          /\ cameraAspect' = (rendererSize'[1] * 1000) \div rendererSize'[2]
          /\ UNCHANGED <<cameraPosition, cameraDirection, controlsTarget,
                         cameraNear, cameraFar, minDistance, maxDistance,
                         position0, target0, sphericalDelta,
                         isShiftDragging, previousY, controlsEnabled,
                         loadState, progressHidden>>
      ]_vars

\* C13 witness: the window was resized to 800 x 800 during a SHIFT drag that
\* had moved the camera of the framed 10-unit cube off its baseline
C13_ResizedDuringDrag ==
    /\ lastEvent.type = "resize"
    /\ isShiftDragging
    /\ ~controlsEnabled
    /\ boxSize = Cube10
    /\ rendererSize = <<800, 800>>
    /\ cameraAspect = 1000
    /\ cameraPosition # position0

\* C14: right after a successful framing with maxDim > 0 the camera is at the
\* position the framing formula gives, (d*0.18*cos 45, d*0.4, d*0.18*sin 45)
\* with d = 1.2 * maxDim / (2 * tan(fov/2)), about the target (0, 0, 0), and
\* that pose is the saved reset baseline.
C14_FramedPoseIsFormula ==
    [][ (lastEvent'.type = "load-success" /\ MaxDim(boxSize') > 0) =>
          /\ cameraPosition' = ToSpherical(FramePosition(MaxDim(boxSize'), CameraFov))
          /\ position0' = cameraPosition'
          /\ controlsTarget' = Origin
          /\ target0' = Origin
      ]_vars

\* twice the camera's coordinate along its view direction plus the recorded
\* pointer Y, in thousandths: the quantity a dolly step -deltaY * 0.5 that
\* records the new Y leaves unchanged
DollyBalance(pos, dir, prevY) == 2 * Along(pos, dir) + 1000 * prevY

\* C15: within a SHIFT drag on the framed model with the button held, over
\* the mousemoves and the
\* frames drawn between them that leave the view direction unchanged,
\* previousY is the clientY of the latest mousemove (or of the mousedown) and
\* the camera's displacement along the view direction since the mousedown is
\* -(previousY - startY) * 0.5: every such step keeps
\* 2 * displacement + previousY where it was, so dragging back to the
\* starting Y brings the camera back to its starting position.
C15_NetDisplacement ==
    [][ ( /\ loadState = "loaded"
          /\ MaxDim(boxSize) > 0
          /\ isShiftDragging
          /\ buttonDown
          /\ lastEvent'.type \in {"mousemove", "frame"}
          /\ cameraDirection' = cameraDirection ) =>
          /\ previousY' = (IF lastEvent'.type = "mousemove"
                           THEN lastEvent'.clientY ELSE previousY)
          /\ DollyBalance(cameraPosition', cameraDirection', previousY')
               = DollyBalance(cameraPosition, cameraDirection, previousY)
      ]_vars

\* C16: outside a SHIFT drag the dolly handlers change nothing: a mousemove
\* leaves the camera and previousY alone, a mousedown that is not button 0
\* with shift held leaves isShiftDragging, previousY and controls.enabled
\* alone, and a mouseup leaves isShiftDragging and controls.enabled alone.
C16_NoOpOutsideGesture ==
    [][ /\ (~isShiftDragging /\ lastEvent'.type = "mousemove") =>
              UNCHANGED <<cameraPosition, cameraDirection, previousY,
                          isShiftDragging, controlsEnabled>>
        /\ ( /\ lastEvent'.type = "mousedown"
             /\ ~(lastEvent'.button = 0 /\ lastEvent'.shiftKey) ) =>
              UNCHANGED <<isShiftDragging, previousY, controlsEnabled,
                          cameraPosition>>
        /\ (~isShiftDragging /\ lastEvent'.type = "mouseup") =>
              UNCHANGED <<isShiftDragging, controlsEnabled, previousY,
                          cameraPosition>>
      ]_vars

\* C16 witness: after a finished gesture on the framed model the pointer moved
\* over the canvas to a Y other than the recorded one, in Orbit mode, and
\* previousY kept the gesture's last value
C16_MovedOutsideGesture ==
    /\ lastEvent.type = "mousemove"
    /\ ~isShiftDragging
    /\ controlsEnabled
    /\ loadState = "loaded"
    /\ previousY \in ClientYs
    /\ lastEvent.clientY # previousY

====
